---- MODULE Spec2Model ----
(***************************************************************************)
(* A model of gray-tree's binary tree: Node, NodeBuilder, the three        *)
(* mapping traversals, the level-order iterator and the Display printer.   *)
(*                                                                         *)
(* Option<X> is a sequence of length at most one: None is <<>>, Some(x) is  *)
(* <<x>>.  A raw pointer *const Node<T> is the path of the node from the    *)
(* root it was taken from ("L" / "R" steps): two pointers are equal exactly *)
(* when they address the same node.                                        *)
(***************************************************************************)
EXTENDS Integers, Sequences, FiniteSets, TLC

VARIABLES
    root,           \* the tree the caller owns (Node<T>)
    iter,           \* LevelOrderIter { last, queue, level }
    returned,       \* history: what each call of next returned, in order
    builder,        \* Option<NodeBuilder { data, left, right }>
    builder_calls,  \* history: the setters called on the builder, in order
    built,          \* Option<Result<Node<T>>>: what build returned
    tree,           \* the tree a mapping traversal consumes and returns
    consumed,       \* history: the tree the latest mapping call consumed
    map_log,        \* history: the calls of f made by the latest mapping
    map_applied,    \* history: <<traversal, f>> of each mapping call
    levels,         \* Display::fmt: the per-level lists of texts
    max_width,      \* Display::fmt: the widest text
    output          \* Option<rows>: what Display::fmt wrote

vars == <<root, iter, returned, builder, builder_calls, built, tree, consumed,
          map_log, map_applied, levels, max_width, output>>

-----------------------------------------------------------------------------
(* Bounds of the model.                                                    *)

MaxNodes == 4        \* trees of up to this many nodes (plus the reference tree)
MaxData == 2         \* number of distinct element values
MaxNoneCalls == 2    \* calls of next after the iterator is exhausted
MaxSetterCalls == 3  \* data/left/right calls on one builder
MaxMapNodes == 3     \* trees handed to the mapping traversals
MaxMaps == 2         \* mapping calls chained on one tree

\* Element values: one-digit and two-digit numbers.
Data == {7 * k : k \in 1..MaxData}

-----------------------------------------------------------------------------
(* Option, Node.                                                           *)

None == <<>>
Some(x) == <<x>>

\* struct Node<T> { data, left, right }
Node(d, l, r) == [data |-> d, left |-> l, right |-> r]

\* Node::new
new(d) == Node(d, None, None)

\* Node::left: Option<&Node<T>>, as the pointer to the child
left(node, ptr) == IF node.left = None THEN None ELSE Some(ptr \o <<"L">>)

\* Node::right
right(node, ptr) == IF node.right = None THEN None ELSE Some(ptr \o <<"R">>)

\* ptr.as_ref(): the node a pointer taken from `node` addresses
RECURSIVE Deref(_, _)
Deref(node, ptr) ==
    IF ptr = <<>> THEN node
    ELSE Deref(IF Head(ptr) = "L" THEN node.left[1] ELSE node.right[1], Tail(ptr))

\* Node::data
data(node) == node.data

RECURSIVE TreesOfSize(_)
RECURSIVE LinksOfSize(_)
\* every Node<T> with exactly n nodes
TreesOfSize(n) ==
    IF n = 0 THEN {}
    ELSE UNION { { Node(d, l, r) : d \in Data, l \in LinksOfSize(k),
                                   r \in LinksOfSize(n - 1 - k) } : k \in 0..(n - 1) }
\* every Link<T> = Option<Box<Node<T>>> holding exactly n nodes
LinksOfSize(n) == IF n = 0 THEN {None} ELSE { Some(t) : t \in TreesOfSize(n) }

\* the tree the example program builds: 1{2{4,5{8,_}},3{6{_,9},7}}
RefTree ==
    Node(1, Some(Node(2, Some(new(4)), Some(Node(5, Some(new(8)), None)))),
            Some(Node(3, Some(Node(6, None, Some(new(9)))), Some(new(7)))))

Trees == UNION { TreesOfSize(n) : n \in 1..MaxNodes } \cup {RefTree}

-----------------------------------------------------------------------------
(* Measures of a tree, defined by structural recursion.                    *)

RECURSIVE NodeCount(_)
NodeCount(node) ==
    1 + (IF node.left = None THEN 0 ELSE NodeCount(node.left[1]))
      + (IF node.right = None THEN 0 ELSE NodeCount(node.right[1]))

RECURSIVE Paths(_)
\* the pointers to all nodes of the tree rooted at node
Paths(node) ==
    {<<>>} \cup (IF node.left = None THEN {}
                 ELSE { <<"L">> \o p : p \in Paths(node.left[1]) })
           \cup (IF node.right = None THEN {}
                 ELSE { <<"R">> \o p : p \in Paths(node.right[1]) })

\* depth of a node: the number of edges from the root
Depth(ptr) == Len(ptr)

RECURSIVE LeftOf(_, _)
\* among two distinct nodes of one depth: p is to the left of q
LeftOf(p, q) ==
    /\ p # <<>> /\ q # <<>>
    /\ \/ Head(p) = "L" /\ Head(q) = "R"
       \/ Head(p) = Head(q) /\ LeftOf(Tail(p), Tail(q))

\* breadth-first order: shallower first, within a depth left to right
BfsBefore(p, q) == Depth(p) < Depth(q) \/ (Depth(p) = Depth(q) /\ LeftOf(p, q))

-----------------------------------------------------------------------------
(* LevelOrderIter.                                                         *)

\* LevelOrderIter::new
LevelOrderIter_new(ptr) == [last |-> ptr, queue |-> <<ptr>>, level |-> 0]

\* LevelOrderIter::level
level(self) == self.level

\* Node::level_order_iter
level_order_iter == LevelOrderIter_new(<<>>)

\* mutant: the right child is pushed before the left child
PushChildren_RightFirst(queue, node, ptr) == queue \o right(node, ptr) \o left(node, ptr)

\* mutant: the right child is pushed only when there is no left child
PushChildren_DropRight(queue, node, ptr) ==
    queue \o (IF left(node, ptr) # None THEN left(node, ptr) ELSE right(node, ptr))

\* the children next pushes to the back of the queue
PushChildren(queue, node, ptr) == queue \o left(node, ptr) \o right(node, ptr)

\* mutant: the level is read after it was updated
ReportedLevel_AfterUpdate(before, after) == after

\* the depth next pairs with the item, given the level before and after
ReportedLevel(before, after) == before

\* mutant: an exhausted iterator starts over from the root
Exhausted_Restart(self) == [self |-> LevelOrderIter_new(<<>>), ret |-> None]

\* next on an empty queue: nothing changes, None is returned
Exhausted(self) == [self |-> self, ret |-> None]

\* mutant: the front of the queue is taken for the last node of the next level
UpdateLast_Front(last, queue) == IF queue # <<>> THEN queue[1] ELSE last

\* `if let Some(last) = self.queue.back() { self.last = *last; }`
UpdateLast(last, queue) == IF queue # <<>> THEN queue[Len(queue)] ELSE last

\* <LevelOrderIter as Iterator>::next: the iterator after the call, and the
\* Option<(usize, &T)> returned; a &T is the pointer to the node holding it
next(self) ==
    IF self.queue = <<>> THEN Exhausted(self)
    ELSE LET ptr == Head(self.queue)
             node == Deref(root, ptr)
             queue == PushChildren(Tail(self.queue), node, ptr)
             isLast == self.last = ptr
             newLast == IF isLast THEN UpdateLast(self.last, queue) ELSE self.last
             newLevel == IF isLast THEN self.level + 1 ELSE self.level
         IN [self |-> [last |-> newLast, queue |-> queue, level |-> newLevel],
             ret |-> Some(<<ReportedLevel(self.level, newLevel), ptr>>)]

\* the items next has yielded so far
Yielded == SelectSeq(returned, LAMBDA r : r # None)
YieldedItem(i) == Yielded[i][1]
NoneCalls == Len(returned) - Len(Yielded)

-----------------------------------------------------------------------------
(* Error, Result, NodeBuilder.                                             *)

\* enum Error
Error == {"MissingDataField"}

\* Result<T> = std::result::Result<T, Error>
Ok(x) == <<"Ok", x>>
Err(e) == <<"Err", e>>

\* <NodeBuilder as Default>::default
NodeBuilder_default == [data |-> None, left |-> None, right |-> None]

\* Node::builder
Node_builder == NodeBuilder_default

\* mutant: build also insists on a left child
NodeBuilder_build_RequiresLeft(self) ==
    IF self.data # None /\ self.left # None
    THEN Ok(Node(self.data[1], self.left, self.right))
    ELSE Err("MissingDataField")

\* NodeBuilder::build
NodeBuilder_build(self) ==
    IF self.data # None
    THEN Ok(Node(self.data[1], self.left, self.right))
    ELSE Err("MissingDataField")

\* NodeBuilder::data
NodeBuilder_data(self, d) == [self EXCEPT !.data = Some(d)]

\* mutant: left rebuilds the builder and forgets the right child
NodeBuilder_left_ResetsRight(self, node) ==
    [data |-> self.data, left |-> Some(node), right |-> None]

\* NodeBuilder::left
NodeBuilder_left(self, node) == [self EXCEPT !.left = Some(node)]

\* NodeBuilder::right
NodeBuilder_right(self, node) == [self EXCEPT !.right = Some(node)]

\* the nodes handed to left and right
ChildTrees == { new(d) : d \in Data } \cup { Node(7, None, Some(new(14))) }

-----------------------------------------------------------------------------
(* The mapping traversals.  A transform f: FnMut(T) -> U is a sequence of  *)
(* primitive steps applied in order (so f \o g is "f, then g"); the state  *)
(* it carries across calls is the log of the calls made so far.            *)

Prims == {"identity", "inc", "dbl", "count"}
Fns == { <<p>> : p \in Prims }

\* one primitive step, on the n-th call (counting from 0) of the closure
ApplyPrim(p, n, x) ==
    CASE p = "identity" -> x
      [] p = "inc" -> x + 1
      [] p = "dbl" -> 2 * x
      [] p = "count" -> x + 100 * n

RECURSIVE ApplyFn(_, _, _)
ApplyFn(f, n, x) ==
    IF f = <<>> THEN x ELSE ApplyFn(Tail(f), n, ApplyPrim(Head(f), n, x))

\* a transform is pure when its result depends on its argument alone
Pure(f) == \A i \in 1..Len(f) : f[i] # "count"

\* f(self.data) for the node at `at`: the value returned and the log after
Call(f, st, x, at) ==
    LET y == ApplyFn(f, Len(st), x)
    IN [ret |-> y, st |-> Append(st, [arg |-> x, ret |-> y, at |-> at])]

RECURSIVE pre_order_map_inner(_, _, _, _)
\* Node::pre_order_map_inner: data, then left, then right
pre_order_map_inner(self, f, st, at) ==
    LET d == Call(f, st, self.data, at)
        l == IF self.left = None THEN [link |-> None, st |-> d.st]
             ELSE LET m == pre_order_map_inner(self.left[1], f, d.st, at \o <<"L">>)
                  IN [link |-> Some(m.node), st |-> m.st]
        r == IF self.right = None THEN [link |-> None, st |-> l.st]
             ELSE LET m == pre_order_map_inner(self.right[1], f, l.st, at \o <<"R">>)
                  IN [link |-> Some(m.node), st |-> m.st]
    IN [node |-> Node(d.ret, l.link, r.link), st |-> r.st]

RECURSIVE mid_order_map_inner(_, _, _, _)
\* Node::mid_order_map_inner: left, then data, then right
mid_order_map_inner(self, f, st, at) ==
    LET l == IF self.left = None THEN [link |-> None, st |-> st]
             ELSE LET m == mid_order_map_inner(self.left[1], f, st, at \o <<"L">>)
                  IN [link |-> Some(m.node), st |-> m.st]
        d == Call(f, l.st, self.data, at)
        r == IF self.right = None THEN [link |-> None, st |-> d.st]
             ELSE LET m == mid_order_map_inner(self.right[1], f, d.st, at \o <<"R">>)
                  IN [link |-> Some(m.node), st |-> m.st]
    IN [node |-> Node(d.ret, l.link, r.link), st |-> r.st]

RECURSIVE post_order_map_inner(_, _, _, _)
\* Node::post_order_map_inner: left, then right, then data
post_order_map_inner(self, f, st, at) ==
    LET l == IF self.left = None THEN [link |-> None, st |-> st]
             ELSE LET m == post_order_map_inner(self.left[1], f, st, at \o <<"L">>)
                  IN [link |-> Some(m.node), st |-> m.st]
        r == IF self.right = None THEN [link |-> None, st |-> l.st]
             ELSE LET m == post_order_map_inner(self.right[1], f, l.st, at \o <<"R">>)
                  IN [link |-> Some(m.node), st |-> m.st]
        d == Call(f, r.st, self.data, at)
    IN [node |-> Node(d.ret, l.link, r.link), st |-> d.st]

RECURSIVE Mirror(_)
\* the tree with left and right exchanged at every node
Mirror(node) ==
    Node(node.data,
         IF node.right = None THEN None ELSE Some(Mirror(node.right[1])),
         IF node.left = None THEN None ELSE Some(Mirror(node.left[1])))

\* mutant: the mapped children are stored in each other's field
pre_order_map_Mirrored(self, f) ==
    LET m == pre_order_map_inner(self, f, <<>>, <<>>)
    IN [node |-> Mirror(m.node), st |-> m.st]

\* Node::pre_order_map: the new tree, and the calls of f in order
pre_order_map(self, f) == pre_order_map_inner(self, f, <<>>, <<>>)

\* mutant: mid_order_map runs the pre-order recursion
mid_order_map_AsPreOrder(self, f) == pre_order_map_inner(self, f, <<>>, <<>>)

\* Node::mid_order_map
mid_order_map(self, f) == mid_order_map_inner(self, f, <<>>, <<>>)

\* mutant: the mapped children are stored in each other's field
post_order_map_Mirrored(self, f) ==
    LET m == post_order_map_inner(self, f, <<>>, <<>>)
    IN [node |-> Mirror(m.node), st |-> m.st]

\* Node::post_order_map
post_order_map(self, f) == post_order_map_inner(self, f, <<>>, <<>>)

\* the traversal named m
MapBy(m, self, f) ==
    CASE m = "pre" -> pre_order_map(self, f)
      [] m = "mid" -> mid_order_map(self, f)
      [] m = "post" -> post_order_map(self, f)

\* the trees handed to the mapping traversals
MapTrees == UNION { TreesOfSize(n) : n \in 1..MaxMapNodes } \cup {RefTree}

-----------------------------------------------------------------------------
(* <Node as Display>::fmt.  A text (String) is the sequence of its         *)
(* characters.                                                             *)

Digits == <<"0", "1", "2", "3", "4", "5", "6", "7", "8", "9">>

RECURSIVE Format(_)
\* format!("{}", n) for a non-negative integer: its decimal digits
Format(n) ==
    IF n < 10 THEN <<Digits[n + 1]>>
    ELSE Format(n \div 10) \o <<Digits[(n % 10) + 1]>>

RECURSIVE Repeat(_, _)
\* str::repeat
Repeat(str, n) == IF n <= 0 THEN <<>> ELSE str \o Repeat(str, n - 1)

\* format!("{:^width$}", str): centred, the odd space of padding on the right
Center(str, width) ==
    LET pad == IF width > Len(str) THEN width - Len(str) ELSE 0
    IN Repeat(<<" ">>, pad \div 2) \o str \o Repeat(<<" ">>, pad - (pad \div 2))

\* mutant: every shift is one bit too far
Shl_OneMore(n) == 2 ^ (n + 1)

\* 1 << n
Shl(n) == 2 ^ n

\* the placeholder pushed for an absent child
Placeholder == <<" ">>

\* the locals of fmt when the level collection starts
FmtStart ==
    [last |-> <<>>, back |-> <<>>, max_width |-> 1, queue |-> <<Some(<<>>)>>,
     levels |-> <<>>, level |-> <<>>]

\* one iteration of the loop `while let Some(ptr) = queue.pop_front()`
FmtPop(self, st) ==
    LET front == Head(st.queue)
        rest == Tail(st.queue)
    IN IF front # None
       THEN LET ptr == front[1]
                node == Deref(self, ptr)
                l == left(node, ptr)
                r == right(node, ptr)
                back == IF r # None THEN r[1] ELSE IF l # None THEN l[1] ELSE st.back
                c == Format(data(node))
                width == IF Len(c) > st.max_width THEN Len(c) ELSE st.max_width
                lvl == Append(st.level, c)
            IN IF st.last = ptr
               THEN [last |-> back, back |-> back, max_width |-> width,
                     queue |-> rest \o <<l, r>>,
                     levels |-> Append(st.levels, lvl), level |-> <<>>]
               ELSE [last |-> st.last, back |-> back, max_width |-> width,
                     queue |-> rest \o <<l, r>>,
                     levels |-> st.levels, level |-> lvl]
       ELSE [st EXCEPT !.queue = rest, !.level = Append(st.level, Placeholder)]

RECURSIVE FmtCollect_Flush(_, _)
\* mutant: the entries collected after the last level are pushed as a level
FmtCollect_Flush(self, st) ==
    IF st.queue = <<>> THEN [st EXCEPT !.levels = Append(st.levels, st.level)]
    ELSE FmtCollect_Flush(self, FmtPop(self, st))

RECURSIVE FmtCollect(_, _)
\* the loop, run until the queue is empty
FmtCollect(self, st) ==
    IF st.queue = <<>> THEN st ELSE FmtCollect(self, FmtPop(self, st))

\* the connector drawn in a connector row for entry idx (from 0) of a level
Branch(idx, c, mid_space, right_space, width) ==
    IF idx % 2 = 0
    THEN Center(IF c # Placeholder THEN <<"/">> ELSE <<" ">>, width)
    ELSE mid_space \o Center(IF c # Placeholder THEN <<"\\">> ELSE <<" ">>, width)
                   \o right_space

RECURSIVE Concat(_)
\* the texts of a sequence written one after the other
Concat(texts) == IF texts = <<>> THEN <<>> ELSE Head(texts) \o Concat(Tail(texts))

\* connector row i of the level at index idx (from 0) of len levels
ConnectorRow(lvl, len, idx, i, width) ==
    LET blank == Repeat(<<" ">>, width)
        leftPad == Shl(len - idx - 1) - 1
        mid == Shl(len - idx) - 1
        left_space == Repeat(blank, leftPad + i)
        mid_space == Repeat(blank, mid - 2 * i)
        right_space == Repeat(blank, mid + 2 * i)
    IN left_space \o Concat([k \in 1..Len(lvl) |->
                               Branch(k - 1, lvl[k], mid_space, right_space, width)])

\* mutant: the data row is written without its indentation
DataRow_NoIndent(lvl, len, idx, width) ==
    LET blank == Repeat(<<" ">>, width)
        mid == Shl(len - idx) - 1
    IN Concat([k \in 1..Len(lvl) |-> Center(lvl[k], width) \o Repeat(blank, mid)])

\* the data row of the level at index idx (from 0) of len levels
DataRow(lvl, len, idx, width) ==
    LET blank == Repeat(<<" ">>, width)
        leftPad == Shl(len - idx - 1) - 1
        mid == Shl(len - idx) - 1
    IN Repeat(blank, leftPad)
         \o Concat([k \in 1..Len(lvl) |-> Center(lvl[k], width) \o Repeat(blank, mid)])

\* mutant: the range of connector rows includes its upper end, (0..=n).rev()
RowIndices_Inclusive(n) == [k \in 1..(n + 1) |-> n + 1 - k]

\* (0..n).rev(): the connector-row indices i in the order they are written
RowIndices(n) == [k \in 1..n |-> n - k]

\* the lines written for the level at index idx: for idx > 0 its connector
\* rows, i from (1 << (len - idx - 1)) - 1 down to 0, then its data row.
\* Each line records the operands of the unsigned arithmetic behind it:
\* shift is len - idx - 1, gap is mid - 2 * i.
LevelRows(lvls, idx, width) ==
    LET len == Len(lvls)
        lvl == lvls[idx + 1]
        rev == RowIndices(Shl(len - idx - 1))
    IN (IF idx > 0
        THEN [k \in 1..Len(rev) |->
                [kind |-> "connector", idx |-> idx, shift |-> len - idx - 1,
                 gap |-> (Shl(len - idx) - 1) - 2 * rev[k],
                 text |-> ConnectorRow(lvl, len, idx, rev[k], width)]]
        ELSE <<>>)
       \o << [kind |-> "data", idx |-> idx, shift |-> len - idx - 1,
              gap |-> Shl(len - idx) - 1,
              text |-> DataRow(lvl, len, idx, width)] >>

RECURSIVE Rows(_, _, _)
\* the lines written for the levels from index idx on
Rows(lvls, idx, width) ==
    IF idx >= Len(lvls) THEN <<>>
    ELSE LevelRows(lvls, idx, width) \o Rows(lvls, idx + 1, width)

\* <Node as Display>::fmt: the levels collected, the width, the lines written
fmt(self) ==
    LET st == FmtCollect(self, FmtStart)
    IN [levels |-> st.levels, max_width |-> st.max_width,
        rows |-> Rows(st.levels, 0, st.max_width)]

-----------------------------------------------------------------------------
(* Idle values of the components a specification does not exercise.        *)

IterIdle == iter = LevelOrderIter_new(<<>>) /\ returned = <<>>
BuilderIdle == builder = None /\ builder_calls = <<>> /\ built = None
MapIdle == tree = root /\ consumed = None /\ map_log = <<>> /\ map_applied = <<>>
FmtIdle == levels = <<>> /\ max_width = 1 /\ output = None

-----------------------------------------------------------------------------
(* The level-order iterator over a tree.                                   *)

InitIter ==
    /\ root \in Trees
    /\ iter = level_order_iter
    /\ returned = <<>>
    /\ BuilderIdle /\ MapIdle /\ FmtIdle

IterNext ==
    /\ NoneCalls < MaxNoneCalls
    /\ LET r == next(iter)
       IN /\ iter' = r.self
          /\ returned' = Append(returned, r.ret)
    /\ UNCHANGED <<root, builder, builder_calls, built, tree, consumed,
                   map_log, map_applied, levels, max_width, output>>

NextIter == IterNext

SpecIter == InitIter /\ [][NextIter]_vars

-----------------------------------------------------------------------------
(* One builder: setters, then build.                                       *)

InitBuilder ==
    /\ root = RefTree
    /\ builder = Some(Node_builder)
    /\ builder_calls = <<>>
    /\ built = None
    /\ IterIdle /\ MapIdle /\ FmtIdle

BuilderFrame == UNCHANGED <<root, iter, returned, tree, consumed, map_log,
                            map_applied, levels, max_width, output>>

BuilderData ==
    /\ builder # None /\ Len(builder_calls) < MaxSetterCalls
    /\ \E d \in Data :
          /\ builder' = Some(NodeBuilder_data(builder[1], d))
          /\ builder_calls' = Append(builder_calls, <<"data", d>>)
    /\ UNCHANGED built /\ BuilderFrame

BuilderLeft ==
    /\ builder # None /\ Len(builder_calls) < MaxSetterCalls
    /\ \E node \in ChildTrees :
          /\ builder' = Some(NodeBuilder_left(builder[1], node))
          /\ builder_calls' = Append(builder_calls, <<"left", node>>)
    /\ UNCHANGED built /\ BuilderFrame

BuilderRight ==
    /\ builder # None /\ Len(builder_calls) < MaxSetterCalls
    /\ \E node \in ChildTrees :
          /\ builder' = Some(NodeBuilder_right(builder[1], node))
          /\ builder_calls' = Append(builder_calls, <<"right", node>>)
    /\ UNCHANGED built /\ BuilderFrame

\* build consumes the builder
BuilderBuild ==
    /\ builder # None
    /\ built' = Some(NodeBuilder_build(builder[1]))
    /\ builder' = None
    /\ UNCHANGED builder_calls /\ BuilderFrame

NextBuilder == BuilderData \/ BuilderLeft \/ BuilderRight \/ BuilderBuild

SpecBuilder == InitBuilder /\ [][NextBuilder]_vars

-----------------------------------------------------------------------------
(* Mapping a tree, and mapping the result again with the same traversal:   *)
(* m(m(T, f), g).                                                          *)

InitMap ==
    /\ root \in MapTrees
    /\ tree = root
    /\ consumed = None
    /\ map_log = <<>>
    /\ map_applied = <<>>
    /\ IterIdle /\ BuilderIdle /\ FmtIdle

\* the call tree.m(f): the tree is moved into the call, the result replaces it
MapCall(m, f) ==
    /\ Len(map_applied) < MaxMaps
    /\ map_applied # <<>> => map_applied[1][1] = m
    /\ LET res == MapBy(m, tree, f)
       IN /\ tree' = res.node
          /\ map_log' = res.st
    /\ consumed' = Some(tree)
    /\ map_applied' = Append(map_applied, <<m, f>>)
    /\ UNCHANGED <<root, iter, returned, builder, builder_calls, built,
                   levels, max_width, output>>

PreOrderMap == \E f \in Fns : MapCall("pre", f)
MidOrderMap == \E f \in Fns : MapCall("mid", f)
PostOrderMap == \E f \in Fns : MapCall("post", f)

NextMap == PreOrderMap \/ MidOrderMap \/ PostOrderMap

SpecMap == InitMap /\ [][NextMap]_vars

-----------------------------------------------------------------------------
(* Printing a tree.                                                        *)

InitFmt ==
    /\ root \in Trees
    /\ levels = <<>>
    /\ max_width = 1
    /\ output = None
    /\ IterIdle /\ BuilderIdle /\ MapIdle

Fmt ==
    /\ output = None
    /\ LET res == fmt(root)
       IN /\ levels' = res.levels
          /\ max_width' = res.max_width
          /\ output' = Some(res.rows)
    /\ UNCHANGED <<root, iter, returned, builder, builder_calls, built, tree,
                   consumed, map_log, map_applied>>

NextFmt == Fmt

SpecFmt == InitFmt /\ [][NextFmt]_vars

-----------------------------------------------------------------------------
(* One tree, printed and iterated (as the example program does).           *)

\* the trees printed and iterated together
SmallTrees == MapTrees

InitPrintIter ==
    /\ root \in SmallTrees
    /\ iter = level_order_iter
    /\ returned = <<>>
    /\ levels = <<>>
    /\ max_width = 1
    /\ output = None
    /\ BuilderIdle /\ MapIdle

\* next, the printer's state untouched
PrintIterNext ==
    /\ NoneCalls < MaxNoneCalls
    /\ LET r == next(iter)
       IN /\ iter' = r.self
          /\ returned' = Append(returned, r.ret)
    /\ UNCHANGED <<root, builder, builder_calls, built, tree, consumed,
                   map_log, map_applied, levels, max_width, output>>

\* fmt, the iterator untouched (both only borrow the tree)
PrintIterFmt ==
    /\ output = None
    /\ LET res == fmt(root)
       IN /\ levels' = res.levels
          /\ max_width' = res.max_width
          /\ output' = Some(res.rows)
    /\ UNCHANGED <<root, iter, returned, builder, builder_calls, built, tree,
                   consumed, map_log, map_applied>>

NextPrintIter == PrintIterNext \/ PrintIterFmt

SpecPrintIter == InitPrintIter /\ [][NextPrintIter]_vars

-----------------------------------------------------------------------------
(* Claims about the level-order iterator (under SpecIter).                 *)

\* index of the first call of next that returned None (0 when there is none)
FirstNone ==
    IF \E i \in 1..Len(returned) : returned[i] = None
    THEN CHOOSE i \in 1..Len(returned) :
            returned[i] = None /\ \A j \in 1..(i - 1) : returned[j] # None
    ELSE 0

\* C1: for a tree of N nodes, next yields exactly N items before the first
\* None, the first item has depth 0, and the depths reported for successive
\* items never decrease.
C1_YieldsNItemsDepthsNonDecreasing ==
    /\ FirstNone > 0 => FirstNone - 1 = NodeCount(root)
    /\ Len(Yielded) > 0 => YieldedItem(1)[1] = 0
    /\ \A i \in 1..(Len(Yielded) - 1) : YieldedItem(i)[1] <= YieldedItem(i + 1)[1]

\* the reference tree has been iterated to the end
C1_Witness == root = RefTree /\ FirstNone = 10

\* the (depth, value) pairs of the items yielded so far
YieldedValues == [i \in 1..Len(Yielded) |->
                    <<YieldedItem(i)[1], data(Deref(root, YieldedItem(i)[2]))>>]

\* C2: the iterator yields every node exactly once, in breadth-first order
\* (shallower nodes first, within a depth left to right), each paired with
\* its true depth; the reference tree yields (0,1),(1,2),(1,3),(2,4),(2,5),
\* (2,6),(2,7),(3,8),(3,9).
C2_BreadthFirstTrueDepth ==
    /\ \A i \in 1..Len(Yielded) :
          /\ YieldedItem(i)[2] \in Paths(root)
          /\ YieldedItem(i)[1] = Depth(YieldedItem(i)[2])
    /\ \A i, j \in 1..Len(Yielded) :
          i < j => BfsBefore(YieldedItem(i)[2], YieldedItem(j)[2])
    /\ FirstNone > 0 => { YieldedItem(i)[2] : i \in 1..Len(Yielded) } = Paths(root)
    /\ (root = RefTree /\ FirstNone > 0) =>
          YieldedValues = << <<0, 1>>, <<1, 2>>, <<1, 3>>, <<2, 4>>, <<2, 5>>,
                             <<2, 6>>, <<2, 7>>, <<3, 8>>, <<3, 9>> >>

\* a tree with two nodes on depth 2 under different parents, iterated to the end
C2_Witness ==
    /\ FirstNone > 0
    /\ {<<"L", "R">>, <<"R", "L">>} \subseteq Paths(root)
    /\ Len(Yielded) >= 5

\* C3: whenever next yields an item, the depth it reports is the value level()
\* had before the call: level() is the depth of the next item.
C3_LevelIsDepthOfNextItem ==
    [][(returned' # returned /\ returned'[Len(returned')] # None)
         => returned'[Len(returned')][1][1] = level(iter)]_vars

\* mid-iteration, below the root, with items still queued
C3_Witness == Len(Yielded) >= 2 /\ iter.queue # <<>> /\ level(iter) >= 2

-----------------------------------------------------------------------------
(* Claims about the builder (under SpecBuilder).                           *)

DataWasCalled == \E i \in 1..Len(builder_calls) : builder_calls[i][1] = "data"

\* C4: build fails with MissingDataField exactly when data was never called
\* on the builder; a failed build yields no node and leaves no builder
\* holding the children; MissingDataField is the only error of build.
C4_BuildFailsIffNoData ==
    built # None =>
        /\ built[1][1] \in {"Ok", "Err"}
        /\ (built[1] = Err("MissingDataField")) <=> ~DataWasCalled
        /\ built[1][1] = "Ok" <=> DataWasCalled
        /\ built[1][1] = "Err" => (built[1][2] \in Error /\ builder = None)

\* Node::builder().left(node)...build() without a data call
C4_Witness ==
    /\ built # None
    /\ Len(builder_calls) >= 1
    /\ builder_calls[1][1] = "left"
    /\ ~DataWasCalled

-----------------------------------------------------------------------------
(* Claims about the mapping traversals (under SpecMap).                    *)

\* the positions f was called for, and the arguments it was given, in order
CallPositions == [i \in 1..Len(map_log) |-> map_log[i].at]
CallArguments == [i \in 1..Len(map_log) |-> map_log[i].arg]

\* C5: each mapping traversal returns a tree of exactly the shape of the tree
\* it consumed, calls f exactly once per node, and puts at every position the
\* value f returned for the element at that position.
C5_MapKeepsShapeCallsOncePerNode ==
    map_applied # <<>> =>
        LET T == consumed[1]
        IN /\ Paths(tree) = Paths(T)
           /\ Len(map_log) = NodeCount(T)
           /\ { map_log[i].at : i \in 1..Len(map_log) } = Paths(T)
           /\ \A i \in 1..Len(map_log) :
                 /\ map_log[i].arg = data(Deref(T, map_log[i].at))
                 /\ data(Deref(tree, map_log[i].at)) = map_log[i].ret

\* the reference tree mapped in-order with a transform that carries state
C5_Witness ==
    /\ root = RefTree
    /\ map_applied = << <<"mid", <<"count">>>> >>
    /\ data(tree) = 401

RECURSIVE PreOrder(_, _)
\* the positions of a tree in pre-order: node, left subtree, right subtree
PreOrder(node, at) ==
    <<at>> \o (IF node.left = None THEN <<>> ELSE PreOrder(node.left[1], at \o <<"L">>))
           \o (IF node.right = None THEN <<>> ELSE PreOrder(node.right[1], at \o <<"R">>))

RECURSIVE InOrder(_, _)
\* in in-order: left subtree, node, right subtree
InOrder(node, at) ==
    (IF node.left = None THEN <<>> ELSE InOrder(node.left[1], at \o <<"L">>))
        \o <<at>>
        \o (IF node.right = None THEN <<>> ELSE InOrder(node.right[1], at \o <<"R">>))

RECURSIVE PostOrder(_, _)
\* in post-order: left subtree, right subtree, node
PostOrder(node, at) ==
    (IF node.left = None THEN <<>> ELSE PostOrder(node.left[1], at \o <<"L">>))
        \o (IF node.right = None THEN <<>> ELSE PostOrder(node.right[1], at \o <<"R">>))
        \o <<at>>

LastMap == map_applied[Len(map_applied)][1]

\* C6: f is called on the elements in pre-order by pre_order_map, in in-order
\* by mid_order_map and in post-order by post_order_map; on the reference
\* tree pre-order visits 1,2,4,5,8,3,6,9,7 and post-order 4,8,5,2,9,6,7,3,1.
C6_CallOrder ==
    map_applied # <<>> =>
        LET T == consumed[1]
        IN /\ LastMap = "pre" => CallPositions = PreOrder(T, <<>>)
           /\ LastMap = "mid" => CallPositions = InOrder(T, <<>>)
           /\ LastMap = "post" => CallPositions = PostOrder(T, <<>>)
           /\ (T = RefTree /\ LastMap = "pre") =>
                 CallArguments = <<1, 2, 4, 5, 8, 3, 6, 9, 7>>
           /\ (T = RefTree /\ LastMap = "post") =>
                 CallArguments = <<4, 8, 5, 2, 9, 6, 7, 3, 1>>

\* the example program's call: the reference tree mapped in post-order
C6_Witness ==
    /\ root = RefTree
    /\ map_applied = << <<"post", <<"identity">>>> >>
    /\ Len(map_log) = 9

\* C9: pre_order_map with the identity returns a tree of the same shape and
\* with the same value at every position.
C9_PreOrderMapIdentity ==
    map_applied = << <<"pre", <<"identity">>>> >> => tree = root

\* a tree with a single, right, child mapped with the identity
C9_Witness ==
    /\ map_applied = << <<"pre", <<"identity">>>> >>
    /\ root.left = None /\ root.right # None
    /\ tree = root

RECURSIVE Composition(_)
\* the transforms of a chain of calls, composed in the order of the calls
Composition(applied) ==
    IF applied = <<>> THEN <<>> ELSE applied[1][2] \o Composition(Tail(applied))

\* C10: mapping with f and mapping the result with g, by the same traversal
\* and with pure f and g, gives the tree that one mapping with "f, then g"
\* gives: same shape, same value at every position.
C10_MapComposition ==
    (Len(map_applied) >= 2 /\ \A i \in 1..Len(map_applied) : Pure(map_applied[i][2]))
        => tree = MapBy(map_applied[1][1], root, Composition(map_applied)).node

\* inc then dbl, in post-order, on a tree that is not its own mirror image
C10_Witness ==
    /\ Len(map_applied) >= 2
    /\ map_applied[1] = <<"post", <<"inc">>>>
    /\ map_applied[2] = <<"post", <<"dbl">>>>
    /\ root.left # None /\ root.right = None
    /\ data(tree) = 2 * (data(root) + 1)

-----------------------------------------------------------------------------
(* Claims about the printer (under SpecFmt).                               *)

RECURSIVE SidesAtDepth(_, _, _)
\* for the nodes at depth d below node, left to right: "/" for a node that is
\* a left child, "\" for one that is a right child (side: that of node itself)
SidesAtDepth(node, d, side) ==
    IF d = 0 THEN <<side>>
    ELSE (IF node.left = None THEN <<>> ELSE SidesAtDepth(node.left[1], d - 1, "/"))
      \o (IF node.right = None THEN <<>> ELSE SidesAtDepth(node.right[1], d - 1, "\\"))

\* the characters of a line that are not blanks
NonBlank(text) == SelectSeq(text, LAMBDA ch : ch # " ")

\* C7: in the printed diagram every present left child gets a "/" connector
\* and every present right child a "\" connector, and absent children get
\* blanks: each connector row above the nodes of depth d shows, left to right,
\* exactly the connectors of the nodes of depth d, each by its side.
C7_ConnectorBySide ==
    output # None =>
        \A k \in 1..Len(output[1]) :
            output[1][k].kind = "connector" =>
                NonBlank(output[1][k].text) = SidesAtDepth(root, output[1][k].idx, " ")

RECURSIVE SlotPath(_, _)
\* the position that has index i (from 0) at depth d of the full binary layout
SlotPath(d, i) ==
    IF d = 0 THEN <<>>
    ELSE SlotPath(d - 1, i \div 2) \o <<IF i % 2 = 0 THEN "L" ELSE "R">>

RECURSIVE SlotIndex(_)
\* the index (from 0) of a position among the slots of its depth
SlotIndex(ptr) ==
    IF ptr = <<>> THEN 0
    ELSE 2 * SlotIndex(SubSeq(ptr, 1, Len(ptr) - 1))
           + (IF ptr[Len(ptr)] = "L" THEN 0 ELSE 1)

\* C8: the collected levels follow the full binary layout: the entry at index
\* i of level d is the slot of child (i mod 2) of the entry at index i div 2
\* of level d-1, holding the node's text when that node exists and a
\* placeholder when it does not; every node has its entry.
C8_FullBinaryLayout ==
    output # None =>
        /\ \A d \in 0..(Len(levels) - 1) : \A i \in 0..(Len(levels[d + 1]) - 1) :
              levels[d + 1][i + 1] =
                  IF SlotPath(d, i) \in Paths(root)
                  THEN Format(data(Deref(root, SlotPath(d, i))))
                  ELSE Placeholder
        /\ \A ptr \in Paths(root) :
              /\ Depth(ptr) < Len(levels)
              /\ SlotIndex(ptr) < Len(levels[Depth(ptr) + 1])

-----------------------------------------------------------------------------
(* A single leaf, printed and iterated (under SpecPrintIter).              *)

IsLeaf(node) == node.left = None /\ node.right = None

\* C11: a single leaf Node::new(x) prints as exactly one line, which holds
\* x's text and nothing else but blanks, with no connector row; its
\* level-order iterator yields exactly one item, (0, x).
C11_SingleLeaf ==
    IsLeaf(root) =>
        /\ output # None =>
              /\ Len(output[1]) = 1
              /\ output[1][1].kind = "data"
              /\ NonBlank(output[1][1].text) = Format(data(root))
        /\ Len(Yielded) <= 1
        /\ FirstNone > 0 => YieldedValues = << <<0, data(root)>> >>

\* the leaf 14, printed and iterated to the end
C11_Witness ==
    /\ IsLeaf(root) /\ data(root) = 14
    /\ output # None
    /\ FirstNone = 2

-----------------------------------------------------------------------------
(* More claims about the builder (under SpecBuilder).                      *)

\* the argument of the most recent call of the setter, None when never called
LastCall(setter) ==
    LET calls == { i \in 1..Len(builder_calls) : builder_calls[i][1] = setter }
    IN IF calls = {} THEN None
       ELSE Some(builder_calls[CHOOSE i \in calls : \A j \in calls : j <= i][2])

\* C12: the builder holds, and after a data call build returns, in each of
\* data, left and right the argument of the most recent call of that setter
\* (a repeated call overwrites), and nothing in a field whose setter was
\* never called: no setter touches the other two fields.
C12_BuildReturnsMostRecentFields ==
    /\ builder # None =>
          builder[1] = [data |-> LastCall("data"), left |-> LastCall("left"),
                        right |-> LastCall("right")]
    /\ (built # None /\ DataWasCalled) =>
          built[1] = Ok(Node(LastCall("data")[1], LastCall("left"), LastCall("right")))

\* left called twice with different nodes, then data, then build
C12_Witness ==
    /\ built # None /\ built[1][1] = "Ok"
    /\ Len(builder_calls) = 3
    /\ builder_calls[1][1] = "left" /\ builder_calls[2][1] = "left"
    /\ builder_calls[1][2] # builder_calls[2][2]
    /\ builder_calls[3][1] = "data"
    /\ built[1][2].left = Some(builder_calls[2][2])
    /\ built[1][2].right = None

-----------------------------------------------------------------------------
(* More claims about the level-order iterator (under SpecIter).            *)

RECURSIVE Height(_)
\* the height of a tree: the depth of its deepest node
Height(node) ==
    LET hl == IF node.left = None THEN 0 ELSE 1 + Height(node.left[1])
        hr == IF node.right = None THEN 0 ELSE 1 + Height(node.right[1])
    IN IF hl > hr THEN hl ELSE hr

\* the number of nodes at depth d
NodesAtDepth(node, d) == Cardinality({ p \in Paths(node) : Depth(p) = d })

\* a complete tree: every depth above the deepest is full
IsComplete(node) == \A d \in 0..(Height(node) - 1) : NodesAtDepth(node, d) = 2 ^ d

\* the number of items yielded with depth d
YieldedAtDepth(d) == Len(SelectSeq(Yielded, LAMBDA r : r[1][1] = d))

\* C13: on a complete binary tree of height h the largest depth the iterator
\* reports is h, and for every d < h it yields exactly 2^d items of depth d.
C13_CompleteTreeDepthCounts ==
    (FirstNone > 0 /\ IsComplete(root)) =>
        /\ \A i \in 1..Len(Yielded) : YieldedItem(i)[1] <= Height(root)
        /\ \E i \in 1..Len(Yielded) : YieldedItem(i)[1] = Height(root)
        /\ \A d \in 0..(Height(root) - 1) : YieldedAtDepth(d) = 2 ^ d

\* a complete tree of height 2 iterated to the end
C13_Witness ==
    /\ FirstNone > 0
    /\ IsComplete(root) /\ Height(root) = 2
    /\ YieldedAtDepth(1) = 2

\* C14: the iterator is single-pass: after a None every later call returns
\* None, at most N calls yield an item for a tree of N nodes, and every call
\* after the N-th returns None.
C14_SinglePassTerminates ==
    /\ \A i, j \in 1..Len(returned) :
          (i < j /\ returned[i] = None) => returned[j] = None
    /\ Len(Yielded) <= NodeCount(root)
    /\ \A i \in 1..Len(returned) : i > NodeCount(root) => returned[i] = None

\* all nodes yielded, then next called twice more
C14_Witness ==
    /\ NodeCount(root) >= 3
    /\ Len(Yielded) = NodeCount(root)
    /\ NoneCalls >= 2

\* the queue splits at the tracked node: up to it the current level, after
\* it the next level
QueueSplitsAtLast ==
    iter.queue # <<>> =>
        \E k \in 1..Len(iter.queue) :
            /\ iter.queue[k] = iter.last
            /\ \A j \in 1..k : Depth(iter.queue[j]) = iter.level
            /\ \A j \in (k + 1)..Len(iter.queue) : Depth(iter.queue[j]) = iter.level + 1

\* a call of next that dequeues a node: the counter goes up by one exactly
\* when the node is the tracked one, and the tracked node then becomes the
\* back of the queue, which is the rightmost node of the next depth
LevelBumpedAtLast ==
    (iter.queue # <<>> /\ returned' # returned) =>
        /\ Head(iter.queue) = iter.last => iter'.level = iter.level + 1
        /\ Head(iter.queue) # iter.last =>
              (iter'.level = iter.level /\ iter'.last = iter.last)
        /\ (Head(iter.queue) = iter.last /\ iter'.queue # <<>>) =>
              /\ iter'.last = iter'.queue[Len(iter'.queue)]
              /\ Depth(iter'.last) = iter'.level
              /\ \A p \in Paths(root) :
                    Depth(p) = iter'.level => (p = iter'.last \/ LeftOf(p, iter'.last))

\* C15: the depth counter is incremented exactly when the dequeued node is
\* the tracked last node of the current level, which is then replaced by the
\* back of the queue, the last node of the next level; so while the queue is
\* non-empty the tracked node is queued, the nodes up to it have the depth of
\* the counter and the nodes after it the depth counter + 1.
C15_LastNodeOfLevelTracking == []QueueSplitsAtLast /\ [][LevelBumpedAtLast]_vars

\* mid-level: the tracked node is queued behind a node of its level and
\* ahead of a node of the next level
C15_Witness ==
    /\ Len(iter.queue) >= 3
    /\ iter.queue[2] = iter.last
    /\ iter.level >= 1

-----------------------------------------------------------------------------
(* More claims about the printer (under SpecFmt).                          *)

RECURSIVE ExpectedRows(_, _)
\* for len levels, from level idx on: 2^(len-idx-1) connector rows above the
\* data row of every level but the root's
ExpectedRows(len, idx) ==
    IF idx >= len THEN <<>>
    ELSE (IF idx > 0 THEN [k \in 1..(2 ^ (len - idx - 1)) |-> <<"connector", idx>>]
          ELSE <<>>)
         \o << <<"data", idx>> >> \o ExpectedRows(len, idx + 1)

\* the entries of a level that are not placeholders
Present(lvl) == SelectSeq(lvl, LAMBDA c : c # Placeholder)

\* C16: with len levels collected the output has len data rows, in level
\* order from the root; no connector row is above the root's row, and the
\* data row of level idx >= 1 is directly below exactly 2^(len-idx-1) (at
\* least one) connector rows, which hold only "/", "\" and blanks.
C16_RowStructure ==
    output # None =>
        LET rows == output[1]
        IN /\ [k \in 1..Len(rows) |-> <<rows[k].kind, rows[k].idx>>]
                 = ExpectedRows(Len(levels), 0)
           /\ \A idx \in 1..(Len(levels) - 1) : 2 ^ (Len(levels) - idx - 1) >= 1
           /\ \A k \in 1..Len(rows) :
                 /\ rows[k].kind = "connector" =>
                       \A n \in 1..Len(rows[k].text) :
                           rows[k].text[n] \in {"/", "\\", " "}
                 /\ rows[k].kind = "data" =>
                       NonBlank(rows[k].text) = Concat(Present(levels[rows[k].idx + 1]))

\* the reference tree printed: 11 lines, 4 of them connector rows of level 1
C16_Witness ==
    /\ output # None
    /\ root = RefTree
    /\ Len(output[1]) = 11
    /\ output[1][2].kind = "connector" /\ output[1][5].kind = "connector"
    /\ output[1][6].kind = "data"

\* the column, in units of max_width, of slot j of level idx of len levels
Col(len, idx, j) == (2 ^ (len - idx - 1) - 1) + j * (2 ^ (len - idx))

\* the unit at a column of a line
UnitAt(text, col, w) == SubSeq(text, col * w + 1, (col + 1) * w)

\* a line measured in units: the units at the given columns hold the given
\* texts (cols and texts: functions on 0..n-1), every other unit is blank
LaidOut(text, w, n, cols(_), texts(_)) ==
    /\ Len(text) % w = 0
    /\ \A j \in 0..(n - 1) : cols(j) >= 0 /\ cols(j) < Len(text) \div w
    /\ \A u \in 0..((Len(text) \div w) - 1) :
          UnitAt(text, u, w) =
              IF \E j \in 0..(n - 1) : cols(j) = u
              THEN texts(CHOOSE j \in 0..(n - 1) : cols(j) = u)
              ELSE [x \in 1..w |-> " "]

\* the number of connector rows of level idx among the first k lines
ConnectorRank(rows, k) ==
    Cardinality({ n \in 1..k : rows[n].kind = "connector" /\ rows[n].idx = rows[k].idx })

\* C17: in units of max_width, slot j of the data row of level idx is at
\* column (2^(len-idx-1) - 1) + j * 2^(len-idx), every entry being followed by
\* 2^(len-idx) - 1 blank units; the slot p of the level above is at the
\* midpoint of slots 2p and 2p+1; in the r-th connector row below the parent
\* the "/" is r units left and the "\" r units right of the parent's column,
\* reaching the child's column in the last row.
C17_ColumnLayout ==
    output # None =>
        LET rows == output[1]
            len == Len(levels)
            w == max_width
        IN \A k \in 1..Len(rows) :
              LET idx == rows[k].idx
                  lvl == levels[idx + 1]
                  r == ConnectorRank(rows, k)
                  DataCol(j) == Col(len, idx, j)
                  DataText(j) == Center(lvl[j + 1], w)
                  BranchCol(j) == IF j % 2 = 0 THEN Col(len, idx - 1, j \div 2) - r
                                  ELSE Col(len, idx - 1, j \div 2) + r
                  BranchText(j) ==
                      IF lvl[j + 1] = Placeholder THEN [x \in 1..w |-> " "]
                      ELSE Center(IF j % 2 = 0 THEN <<"/">> ELSE <<"\\">>, w)
              IN /\ rows[k].kind = "data" =>
                       /\ LaidOut(rows[k].text, w, Len(lvl), DataCol, DataText)
                       /\ Len(rows[k].text)
                             = (Col(len, idx, Len(lvl) - 1) + 2 ^ (len - idx)) * w
                 /\ rows[k].kind = "connector" =>
                       /\ LaidOut(rows[k].text, w, Len(lvl), BranchCol, BranchText)
                       /\ \A j \in 0..(Len(lvl) - 1) :
                             /\ 2 * Col(len, idx - 1, j \div 2)
                                   = Col(len, idx, 2 * (j \div 2))
                                       + Col(len, idx, 2 * (j \div 2) + 1)
                             /\ r = 2 ^ (len - idx - 1) => BranchCol(j) = Col(len, idx, j)

\* the reference tree printed: "5" (slot 1 of level 2 of 4) is at column 5
C17_Witness ==
    /\ output # None
    /\ root = RefTree
    /\ UnitAt(output[1][9].text, 5, max_width) = <<"5">>
    /\ UnitAt(output[1][7].text, 4, max_width) = <<"\\">>

RECURSIVE TextsAtDepth(_, _)
\* the texts of the nodes at depth d below node, left to right
TextsAtDepth(node, d) ==
    IF d = 0 THEN <<Format(data(node))>>
    ELSE (IF node.left = None THEN <<>> ELSE TextsAtDepth(node.left[1], d - 1))
      \o (IF node.right = None THEN <<>> ELSE TextsAtDepth(node.right[1], d - 1))

\* C18: for a tree of height h exactly h+1 levels are collected, and the
\* entries of level d that are not placeholders are the texts of the nodes
\* at depth d, each once, left to right.
C18_LevelsHoldNodesOfTheirDepth ==
    output # None =>
        /\ Len(levels) = Height(root) + 1
        /\ \A d \in 0..(Len(levels) - 1) : Present(levels[d + 1]) = TextsAtDepth(root, d)

\* a tree with a gap to the left of a node of depth 2
C18_Witness ==
    /\ output # None
    /\ root.left = None /\ root.right # None
    /\ Height(root) = 2
    /\ Len(levels) = 3

\* C20: the unsigned layout arithmetic never underflows: for every line
\* written len - idx - 1 >= 0, and for every connector row mid - 2 * i >= 1.
C20_NoUnderflow ==
    output # None =>
        /\ \A idx \in 0..(Len(levels) - 1) : Len(levels) - idx - 1 >= 0
        /\ \A k \in 1..Len(output[1]) :
              /\ output[1][k].shift >= 0
              /\ output[1][k].gap >= 1

\* the first connector row below a parent, where the gap is smallest
C20_Witness ==
    /\ output # None
    /\ Len(levels) >= 3
    /\ \E k \in 1..Len(output[1]) :
          /\ output[1][k].kind = "connector"
          /\ output[1][k].idx = 1
          /\ output[1][k].gap = 1

-----------------------------------------------------------------------------
(* One more claim about the mapping traversals (under SpecMap).            *)

\* C19: with a pure transform f, mid_order_map and post_order_map return the
\* tree pre_order_map returns for the same tree and f: same shape, same value
\* at every position.
C19_TraversalsAgreeForPureF ==
    (/\ map_applied # <<>>
     /\ LastMap \in {"mid", "post"}
     /\ Pure(map_applied[Len(map_applied)][2]))
        => tree = pre_order_map(consumed[1], map_applied[Len(map_applied)][2]).node

\* the reference tree mapped in post-order with inc
C19_Witness ==
    /\ root = RefTree
    /\ map_applied = << <<"post", <<"inc">>>> >>
    /\ data(tree) = 2

====
